---- MODULE Spec2Model ----
(***************************************************************************)
(* ad-catering: the edge request gate (src/middleware.ts), the admin and   *)
(* auth route handlers over the relational store, and the discount         *)
(* arithmetic of the menu handlers.                                        *)
(*                                                                         *)
(* The specifications share the variables:                                 *)
(*   SpecGate     a browser navigating through the edge request gate       *)
(*   SpecAuth     registrations and logins running concurrently            *)
(*   SpecApi      a category request and a menu request run concurrently   *)
(*   SpecCat      two category creates or renames run concurrently         *)
(*   SpecGuard    every admin handler under every Authorization header     *)
(*   SpecPublish  menus published and unpublished, listed and shown        *)
(*   SpecPage     paginated listings of a store that is left alone         *)
(*   SpecPrice    menu create/update with price fields (IEEE-754 doubles)  *)
(*   SpecSession  credentials sign-in, then browsing with the session      *)
(*   SpecRedirect a request followed through the redirects it is answered  *)
(*   SpecRetry    an admin page fetching its data, with automatic retries  *)
(***************************************************************************)
EXTENDS Integers, Sequences, FiniteSets, TLC

VARIABLES
    browser,     \* gate: the request the browser last issued, and the
                 \*   number of redirects that led to it
    phase,       \* gate: "idle" | "pending" | "passed" | "redirected" | "rendered"
    resp,        \* gate: the response of the gate to that request
    users,       \* store: rows of table users
    categories,  \* store: rows of table categories
    menus,       \* store: rows of table menus
    storage,     \* object storage: the keys of the stored images
    nextId,      \* the ids and storage keys handed out so far, per kind
    now,         \* store: CURRENT_TIMESTAMP, in milliseconds
    reqs,        \* route handlers in flight, slot -> request record
    client       \* admin page component: its React state, the fetches it has
                 \*   in flight and the timers it has scheduled

vars ==
    <<browser, phase, resp, users, categories, menus, storage, nextId, now, reqs,
      client>>

\* the page component takes no part in the gate or in the handlers: every one
\* of their actions leaves it alone
gateVars == <<browser, phase, resp, client>>
storeVars == <<users, categories, menus, storage, nextId, now, client>>
apiVars == <<users, categories, menus, storage, nextId, now, reqs, client>>
serverVars ==
    <<browser, phase, resp, users, categories, menus, storage, nextId, now, reqs>>

None == "none"

(***************************************************************************)
(* Paths are sequences of characters, so that String.startsWith and the    *)
(* matcher are computed on characters as the code does.                    *)
(***************************************************************************)
PAdministrator == <<"/","a","d","m","i","n","i","s","t","r","a","t","o","r">>
PAdminMenus == PAdministrator \o <<"/","m","e","n","u","s">>
PAdminMenusAdd == PAdminMenus \o <<"/","a","d","d">>
PAdministrators == PAdministrator \o <<"s">>
PLogin == <<"/","l","o","g","i","n">>
PRegister == <<"/","r","e","g","i","s","t","e","r">>
PRoot == <<"/">>
PCatalogue == <<"/","c","a","t","a","l","o","g","u","e">>

Paths == {PAdministrator, PAdminMenus, PAdminMenusAdd, PAdministrators,
          PLogin, PRegister, PRoot, PCatalogue}

\* req.auth: no session, or a session carrying user.role
Sessions == {None, "USER", "ADMIN"}

CookieNames == {"next-auth.session-token", "__Secure-next-auth.session-token",
                "next-auth.csrf-token", "__Host-next-auth.csrf-token"}

StartsWith(s, p) == Len(s) >= Len(p) /\ SubSeq(s, 1, Len(p)) = p

\* config.matcher: "/administrator/:path*" and "/login"
MatcherMatches(path) ==
    \/ path = PAdministrator
    \/ StartsWith(path, PAdministrator \o <<"/">>)
    \/ path = PLogin

NextResponse == [kind |-> "next", location |-> <<>>, query |-> "", deleted |-> {}]

Redirect(path, query, deleted) ==
    [kind |-> "redirect", location |-> path, query |-> query, deleted |-> deleted]

\* a gate that deletes the session tokens and leaves the csrf tokens
ExpiredCookiesSessionOnly ==
    {"next-auth.session-token", "__Secure-next-auth.session-token"}

\* the cookies the expired-session redirect deletes
ExpiredCookies == CookieNames

\* a redirect for requests without a session that leads back to the
\* administrator routes
ExpiredRedirectLoop == Redirect(PAdministrator, "expired=true", ExpiredCookies)

ExpiredRedirect == Redirect(PLogin, "expired=true", ExpiredCookies)

\* a gate that sends every logged-in user from /login to the site root
LoginRoleHomeRoot(userRole) == Redirect(PRoot, "", {})

\* redirect of a logged-in user away from /login
LoginRoleHome(userRole) ==
    IF userRole = "ADMIN" THEN Redirect(PAdministrator, "", {})
    ELSE Redirect(PRoot, "", {})

\* redirect of a logged-in user away from /register
RegisterRoleHome(userRole) ==
    IF userRole = "ADMIN" THEN Redirect(PAdministrator, "", {})
    ELSE Redirect(PRoot, "", {})

\* a gate that lets every logged-in user into the administrator routes
AdminRoleDeniedNever(userRole) == FALSE

\* the role check of a logged-in request to an administrator route
AdminRoleDenied(userRole) == userRole # "ADMIN"

\* the function wrapped by auth(): src/middleware.ts lines 4-61
Middleware(path, session) ==
    LET isLoggedIn == session # None
        userRole == session
        isAdministratorRoute == StartsWith(path, PAdministrator)
    IN  IF isAdministratorRoute /\ ~isLoggedIn THEN ExpiredRedirect
        ELSE IF isAdministratorRoute /\ isLoggedIn /\ AdminRoleDenied(userRole)
             THEN Redirect(PRoot, "", {})
        ELSE IF path = PLogin /\ isLoggedIn THEN LoginRoleHome(userRole)
        ELSE IF path = PRegister /\ isLoggedIn THEN RegisterRoleHome(userRole)
        ELSE NextResponse

\* the gate as deployed: the middleware runs only on the paths of the matcher
EdgeGate(path, session) ==
    IF MatcherMatches(path) THEN Middleware(path, session) ELSE NextResponse

\* the page component as useState initialises it, before its first effect:
\* calls counts the apiRequest calls made so far, clean says that none of them
\* has succeeded and that Retry was never clicked
Unmounted ==
    [mounted |-> FALSE, retryCount |-> 0, error |-> FALSE, loading |-> TRUE,
     fetches |-> {}, timers |-> {}, calls |-> 0, clean |-> TRUE]

GateInit ==
    /\ browser = [path |-> PRoot, session |-> None, jar |-> {}, hops |-> 0]
    /\ phase = "idle"
    /\ resp = NextResponse
    /\ client = Unmounted

\* the browser issues a request: a path, the session auth() resolves for it,
\* and the cookies it holds
Navigate ==
    /\ phase # "pending"
    /\ \E p \in Paths, s \in Sessions, j \in SUBSET CookieNames :
          browser' = [path |-> p, session |-> s, jar |-> j, hops |-> 0]
    /\ phase' = "pending"
    /\ resp' = NextResponse
    /\ UNCHANGED apiVars

\* the gate answers the pending request; a redirect's cookie deletions take
\* effect in the browser
Gate ==
    /\ phase = "pending"
    /\ resp' = EdgeGate(browser.path, browser.session)
    /\ phase' = IF resp'.kind = "redirect" THEN "redirected" ELSE "passed"
    /\ browser' = [browser EXCEPT !.jar = @ \ resp'.deleted]
    /\ UNCHANGED apiVars

\* the page is rendered
Rendered == [kind |-> "page", location |-> <<>>, query |-> "", deleted |-> {}]

\* SignInPage of src/app/login/page.tsx: a request with a session is
\* redirected by its role, a request without one gets the login form
SignInPage(session) ==
    IF session # None
    THEN (IF session = "ADMIN" THEN Redirect(PAdministrator, "", {})
          ELSE Redirect(PRoot, "", {}))
    ELSE Rendered

\* the page of a request the gate passed through: /login runs SignInPage
Page ==
    /\ phase = "passed"
    /\ resp' = IF browser.path = PLogin THEN SignInPage(browser.session)
               ELSE Rendered
    /\ phase' = IF resp'.kind = "redirect" THEN "redirected" ELSE "rendered"
    /\ UNCHANGED <<browser, apiVars>>

\* the browser follows a redirect: it requests the location with the session
\* it has
Follow ==
    /\ phase = "redirected"
    /\ browser' = [browser EXCEPT !.path = resp.location, !.hops = @ + 1]
    /\ phase' = "pending"
    /\ resp' = NextResponse
    /\ UNCHANGED apiVars

\* the browser issues a request once it has nothing left to load
Request == phase \in {"idle", "rendered"} /\ Navigate

(***************************************************************************)
(* JavaScript numbers.  Prices are integers, exact as doubles; a quotient  *)
(* and its product with 100 are doubles, rounded to nearest, ties to even. *)
(* A positive double is [bits, exp]: MantissaBits binary digits, the most  *)
(* significant first and equal to 1, standing for Nat(bits) * 2^exp.       *)
(***************************************************************************)
MantissaBits == 53

\* scale a and b by powers of two until b <= a < 2b; a/b = (a'/b') * 2^e
Normalise(a0, b0) ==
    LET f[a \in Nat, b \in Nat, e \in Int] ==
            IF a < b THEN f[2 * a, b, e - 1]
            ELSE IF a >= 2 * b THEN f[a, 2 * b, e + 1]
            ELSE <<a, b, e>>
    IN  f[a0, b0, 0]

\* the first n0 binary digits of r0/b after the point (r0 < b), followed by
\* the remainder as the last element
LongDivision(r0, b, n0) ==
    LET f[r \in Nat, n \in Nat] ==
            IF n = 0 THEN <<r>>
            ELSE IF 2 * r >= b THEN <<1>> \o f[2 * r - b, n - 1]
            ELSE <<0>> \o f[2 * r, n - 1]
    IN  f[r0, n0]

\* the carry out, followed by bits + 1 on the same number of digits
Increment(bits) ==
    LET n == Len(bits)
        zeros == {i \in 1..n : bits[i] = 0}
    IN  IF zeros = {} THEN <<1>> \o [i \in 1..n |-> 0]
        ELSE LET j == CHOOSE i \in zeros : \A k \in zeros : k <= i
             IN  <<0>> \o [i \in 1..n |-> IF i < j THEN bits[i]
                                          ELSE IF i = j THEN 1 ELSE 0]

\* the double nearest to (Nat(bits) + a fraction that is nonzero iff sticky)
\* * 2^exp, where bits has at least MantissaBits digits; ties go to even
RoundToDouble(bits, sticky, exp) ==
    LET n == Len(bits)
        kept == SubSeq(bits, 1, MantissaBits)
        guard == IF n > MantissaBits THEN bits[MantissaBits + 1] ELSE 0
        rest == sticky \/ \E i \in (MantissaBits + 2)..n : bits[i] = 1
        up == guard = 1 /\ (rest \/ kept[MantissaBits] = 1)
        inc == Increment(kept)
        e == exp + (n - MantissaBits)
    IN  IF ~up THEN [bits |-> kept, exp |-> e]
        ELSE IF inc[1] = 1
             THEN [bits |-> SubSeq(inc, 1, MantissaBits), exp |-> e + 1]
        ELSE [bits |-> SubSeq(inc, 2, MantissaBits + 1), exp |-> e]

\* the quotient a'/b' * 2^e of a normalised triple <<a', b', e>>
DivideNormal(nm) ==
    CHOOSE x \in
        {RoundToDouble(<<1>> \o SubSeq(q, 1, MantissaBits),
                       q[MantissaBits + 1] # 0, nm[3] - MantissaBits) :
            q \in {LongDivision(nm[1] - nm[2], nm[2], MantissaBits)}} : TRUE

\* a / b for positive integers a and b
Divide(a, b) == CHOOSE x \in {DivideNormal(nm) : nm \in {Normalise(a, b)}} : TRUE

\* the binary digits of a natural number, most significant first
NatBits(c0) ==
    LET f[c \in Nat] == IF c = 0 THEN <<>> ELSE f[c \div 2] \o <<c % 2>>
    IN  f[c0]

\* the natural number of a sequence of binary digits
BitsNat(bits) ==
    LET f[j \in 0..Len(bits)] == IF j = 0 THEN 0 ELSE 2 * f[j - 1] + bits[j]
    IN  f[Len(bits)]

\* the digits of Nat(bits[1..i]) * k + carry
TimesBits(bits, i0, k, carry) ==
    LET f[i \in 0..Len(bits), c \in Nat] ==
            IF i = 0 THEN NatBits(c)
            ELSE f[i - 1, (bits[i] * k + c) \div 2] \o <<(bits[i] * k + c) % 2>>
    IN  f[i0, carry]

\* x * k for a positive double x and a positive integer k
Times(x, k) ==
    CHOOSE y \in
        {RoundToDouble(p, FALSE, x.exp) :
            p \in {TimesBits(x.bits, MantissaBits, k, 0)}} : TRUE

\* Math.round(x) for a positive double x below 2^31: floor(x + 0.5)
MathRound(x) ==
    LET point == MantissaBits + x.exp
    IN  IF point < 0 THEN 0
        ELSE BitsNat(SubSeq(x.bits, 1, point))
                 + (IF point < MantissaBits THEN x.bits[point + 1] ELSE 0)

\* -Math.round(-x) for a positive double x: a tie rounds towards +infinity
MathRoundDown(x) ==
    LET point == MantissaBits + x.exp
        above == point < MantissaBits /\ point >= 0 /\ x.bits[point + 1] = 1
                    /\ \E i \in (point + 2)..MantissaBits : x.bits[i] = 1
    IN  IF point < 0 THEN 0
        ELSE BitsNat(SubSeq(x.bits, 1, point)) + (IF above THEN 1 ELSE 0)

\* Math.round(y) for a double y given as its sign and its magnitude
MathRoundSigned(negative, x) ==
    IF negative THEN 0 - MathRoundDown(x) ELSE MathRound(x)

\* Math.round(((price - discountedPrice) / price) * 100); the quotient and
\* the product are bound to their values before they are used
DiscountPercent(price, discountedPrice) ==
    LET d == price - discountedPrice
        a == IF d < 0 THEN 0 - d ELSE d
    IN  IF d = 0 THEN 0
        ELSE CHOOSE n \in
                 {MathRoundSigned(d < 0, y) :
                     y \in {Times(q, 100) : q \in {Divide(a, price)}}} : TRUE

(***************************************************************************)
(* The store, the bearer token check and the request records of the route  *)
(* handlers.                                                               *)
(***************************************************************************)
\* optional values of a request body or a row: undefined, null, or a number
Undef == [k |-> "undefined", v |-> 0]
Null == [k |-> "null", v |-> 0]
Num(v) == [k |-> "number", v |-> v]
IsNum(x) == x.k = "number"

\* concurrent requests in flight
Slots == {"r1", "r2"}

MaxCategories == 2
MaxMenus == 2
MaxImages == 2
MaxUsers == 3
MaxClock == 1
MaxPage == 2

CategoryNames == {"Aqiqah", "Nasi Box"}

\* Authorization headers: absent, or a scheme and a token.  A token is
\* described by what jwt.verify finds: its signature, its expiry, its payload.
GoodToken(role) == [sig |-> "good", expired |-> FALSE, user_role |-> role]
NoToken == [sig |-> None, expired |-> FALSE, user_role |-> None]
HdrMissing == [scheme |-> None, token |-> NoToken]
HdrBasic == [scheme |-> "Basic", token |-> GoodToken("admin")]
HdrBadSig == [scheme |-> "Bearer",
              token |-> [sig |-> "bad", expired |-> FALSE, user_role |-> "admin"]]
HdrExpired == [scheme |-> "Bearer",
               token |-> [sig |-> "good", expired |-> TRUE, user_role |-> "admin"]]
HdrNotAdmin == [scheme |-> "Bearer", token |-> GoodToken("user")]
HdrAdmin == [scheme |-> "Bearer", token |-> GoodToken("admin")]

Headers == {HdrMissing, HdrBasic, HdrBadSig, HdrExpired, HdrNotAdmin, HdrAdmin}

\* getTokenFromHeader: null unless the header starts with "Bearer "
getTokenFromHeader(hdr) ==
    IF hdr.scheme # "Bearer" THEN NoToken ELSE hdr.token

\* a decoder that reads the payload without verifying signature or expiry
decodeAuthToken(token) == token

\* verifyAuthToken: the payload, or null when jwt.verify throws
verifyAuthToken(token) ==
    IF token.sig = "good" /\ ~token.expired THEN token ELSE NoToken

\* the check every guarded handler opens with:
\*   session = token ? verifyAuthToken(token) : null
\*   if (!session || session.user_role !== "admin") -> 401
Unauthorized(hdr) ==
    LET token == getTokenFromHeader(hdr)
        session == IF token # NoToken THEN verifyAuthToken(token) ELSE NoToken
    IN  session = NoToken \/ session.user_role # "admin"

\* a request body; name, status, email, password and role are None when
\* absent, description is {} and categoryId is 0 when absent
NoBody ==
    [shape |-> "ok", name |-> None, description |-> {}, role |-> None,
     categoryId |-> 0, price |-> Undef,
     discountedPrice |-> Undef, discountPercent |-> Undef, status |-> None,
     image |-> None, imageKey |-> Undef, email |-> None, password |-> None]

\* the token of a response body when there is none
NoJwt == [userId |-> 0, email |-> None, user_role |-> None]

\* the payload of a response: the items of a listing with its pagination
\* (total, pages), the token and data.user.role of a login; a response
\* without them has NoOut
NoOut == [items |-> <<>>, total |-> 0, pages |-> 0, token |-> NoJwt, role |-> None]

\* the query string of a request: a parameter that is absent is the empty
\* text (page and limit are texts of digits), categoryId 0, status None
NoQuery ==
    [page |-> <<>>, limit |-> <<>>, search |-> "", categoryId |-> 0,
     status |-> None, category |-> ""]

\* a request: its input (op, hdr, id, body), the handler's position pc, its
\* response status, the number of persistence and object-storage calls it has
\* made, whether its last call met a conflicting row, the storage key it
\* uploaded (0: none) and the imageKey of the row it read (0: none)
IdleReq ==
    [op |-> None, hdr |-> HdrMissing, id |-> 0, body |-> NoBody, pc |-> "idle",
     status |-> 0, calls |-> 0, conflict |-> FALSE, key |-> 0, old |-> 0,
     out |-> NoOut, query |-> NoQuery]

\* a request arrives on a free slot
NewReq(op, hdr, id, body) ==
    [IdleReq EXCEPT !.op = op, !.hdr = hdr, !.id = id, !.body = body, !.pc = "run"]

Free(s) == reqs[s].pc \in {"idle", "done"}

\* the handler returns a response with this status; the request keeps what
\* it was (op, hdr, the shape of its body) and what the handler did (calls,
\* conflict)
Respond(r, st) ==
    [r EXCEPT !.pc = "done", !.status = st, !.id = 0,
              !.body = [NoBody EXCEPT !.shape = r.body.shape],
              !.key = 0, !.old = 0]

\* the handler has made n more persistence or object-storage calls
Called(r, n) == [r EXCEPT !.calls = @ + n]

\* the requests of an operation that are past their first call and not done
Running(op) ==
    Cardinality({t \in Slots : reqs[t].op = op /\ reqs[t].pc \notin {"idle", "done"}})

Set(s, r) == reqs' = [reqs EXCEPT ![s] = r]

\* the handler answers 401 before it reads the id and the body of the request
Denied(s, op, hdr) == Set(s, Respond(NewReq(op, hdr, 0, NoBody), 401))

At(s, op, pc) == reqs[s].op = op /\ reqs[s].pc = pc

CategoryIds == 1..MaxCategories
MenuIds == 1..MaxMenus

CategoryById(id) == {c \in categories : c.id = id}
CategoryByName(name) == {c \in categories : c.name = name}
MenusOf(categoryId) == {m \in menus : m.categoryId = categoryId}
MenuById(id) == {m \in menus : m.id = id}

\* categories_name_key: a write that would leave two rows with one name fails
NameKeyViolated(id, name) == \E c \in categories : c.name = name /\ c.id # id

\* a store without the foreign key: any category can be deleted
FkRestrictsNothing(categoryId) == FALSE

\* menus_categoryId_fkey, ON DELETE RESTRICT: a category that menus refer to
\* cannot be deleted
FkRestrictsDelete(categoryId) == MenusOf(categoryId) # {}

\* menus_categoryId_fkey on insert and update: the category must exist
FkAccepts(categoryId) == CategoryById(categoryId) # {}

(***************************************************************************)
(* /api/admin/categories                                                   *)
(***************************************************************************)
CategoryBodies ==
    {[NoBody EXCEPT !.name = n] : n \in CategoryNames}
        \cup {[NoBody EXCEPT !.shape = "invalid"]}

(***************************************************************************)
(* Texts.  Names and search words are spelled as sequences of characters,  *)
(* so that contains, mode "insensitive" and toUpperCase are computed on    *)
(* characters.                                                             *)
(***************************************************************************)
Spell(text) ==
    CASE text = "" -> <<>>
      [] text = "Aqiqah" -> <<"A","q","i","q","a","h">>
      [] text = "Nasi Box" -> <<"N","a","s","i"," ","B","o","x">>
      [] text = "Paket 1" -> <<"P","a","k","e","t"," ","1">>
      [] text = "Nasi" -> <<"N","a","s","i">>
      [] text = "Ayam bakar" -> <<"A","y","a","m"," ","b","a","k","a","r">>
      [] text = "nasi" -> <<"n","a","s","i">>
      [] text = "QIQ" -> <<"Q","I","Q">>
      [] text = "paket" -> <<"p","a","k","e","t">>
      [] text = "soto" -> <<"s","o","t","o">>

UpperCase ==
    <<"A","B","C","D","E","F","G","H","I","J","K","L","M",
      "N","O","P","Q","R","S","T","U","V","W","X","Y","Z">>
LowerCase ==
    <<"a","b","c","d","e","f","g","h","i","j","k","l","m",
      "n","o","p","q","r","s","t","u","v","w","x","y","z">>

Recase(ch, from, to) ==
    IF \E i \in 1..Len(from) : from[i] = ch
    THEN to[CHOOSE i \in 1..Len(from) : from[i] = ch]
    ELSE ch

ToLower(w) == [i \in 1..Len(w) |-> Recase(w[i], UpperCase, LowerCase)]

\* String.prototype.toUpperCase
toUpperCase(w) == [i \in 1..Len(w) |-> Recase(w[i], LowerCase, UpperCase)]

\* w has the word as a substring
Contains(w, word) ==
    \E i \in 0..(Len(w) - Len(word)) : SubSeq(w, i + 1, i + Len(word)) = word

\* { contains: search, mode: "insensitive" }
ContainsInsensitive(text, search) ==
    Contains(ToLower(Spell(text)), ToLower(Spell(search)))

Digits == <<"0","1","2","3","4","5","6","7","8","9">>

\* the text of a number below ten
DigitText(n) == <<Digits[n + 1]>>

\* parseInt of a text of digits
parseInt(w) ==
    LET value[i \in 0..Len(w)] ==
           IF i = 0 THEN 0
           ELSE 10 * value[i - 1] + (CHOOSE d \in 0..9 : Digits[d + 1] = w[i])
    IN  value[Len(w)]

\* parseInt(searchParams.get("page") || "1")
PageOf(q) == parseInt(IF q.page = <<>> THEN <<"1">> ELSE q.page)

\* parseInt(searchParams.get("limit") || "10")
LimitOf(q) == parseInt(IF q.limit = <<>> THEN <<"1","0">> ELSE q.limit)

\* skip = (page - 1) * limit
SkipOf(q) == (PageOf(q) - 1) * LimitOf(q)

\* Math.ceil(total / limit)
MathCeil(total, limit) ==
    CHOOSE k \in 0..total : k * limit >= total /\ (k - 1) * limit < total

\* the orders in which the store may return rows under orderBy createdAt: rows
\* that have the same createdAt come in any order
Orderings(rows, direction) ==
    {o \in [1..Cardinality(rows) -> rows] :
        /\ \A i, j \in DOMAIN o : i # j => o[i] # o[j]
        /\ \A i, j \in DOMAIN o :
              i < j => IF direction = "desc" THEN o[i].createdAt >= o[j].createdAt
                       ELSE o[i].createdAt <= o[j].createdAt}

\* findMany({where, orderBy: {createdAt: "desc"}, skip, take}) on the rows the
\* where selects: the results the store may give
FindMany(rows, skip, take) ==
    {SubSeq(o, skip + 1, IF skip + take < Len(o) THEN skip + take ELSE Len(o)) :
        o \in Orderings(rows, "desc")}

\* where of GET /api/admin/categories
CategoryWhere(q) ==
    {c \in categories : q.search # "" => ContainsInsensitive(c.name, q.search)}

\* a where of GET /api/admin/menus that leaves the status out
MenuWhereAnyStatus(q) ==
    {m \in menus :
        /\ q.search # "" => \/ ContainsInsensitive(m.name, q.search)
                            \/ q.search \in m.description
        /\ q.categoryId # 0 => m.categoryId = q.categoryId}

\* where of GET /api/admin/menus
MenuWhere(q) ==
    {m \in menus :
        /\ q.search # "" => \/ ContainsInsensitive(m.name, q.search)
                            \/ q.search \in m.description
        /\ q.categoryId # 0 => m.categoryId = q.categoryId
        /\ q.status \in {"DRAFT", "PUBLISHED"} => m.status = q.status}

\* a listing up to Promise.all([findMany, count]): a negative skip is refused
\* by the store and the catch answers 500
List(s, op, Hdrs, Queries) ==
    /\ Free(s)
    /\ \E hdr \in Hdrs :
          IF Unauthorized(hdr) THEN Denied(s, op, hdr)
          ELSE
          \E q \in Queries :
          LET r == [NewReq(op, hdr, 0, NoBody) EXCEPT !.query = q]
          IN  IF SkipOf(q) < 0 THEN Set(s, Respond(Called(r, 2), 500))
              ELSE Set(s, [r EXCEPT !.pc = "query"])
    /\ UNCHANGED <<gateVars, storeVars>>

\* a listing: the two queries of Promise.all run one after the other in either
\* order, each on the rows the where selects when it runs; the response has
\* the items, the total and pages = Math.ceil(total / limit)
ListQuery(s, op, rows) ==
    /\ reqs[s].op = op /\ reqs[s].pc \in {"query", "found", "counted"}
    /\ LET r == Called(reqs[s], 1)
           pc == reqs[s].pc
           Answer(q) ==
              Respond([q EXCEPT !.out.pages = MathCeil(q.out.total, LimitOf(q.query))],
                      200)
       IN  \/ /\ pc \in {"query", "counted"}
              /\ \E items \in FindMany(rows, SkipOf(r.query), LimitOf(r.query)) :
                    LET q == [r EXCEPT !.out.items = items]
                    IN  Set(s, IF pc = "query" THEN [q EXCEPT !.pc = "found"]
                               ELSE Answer(q))
           \/ /\ pc \in {"query", "found"}
              /\ LET q == [r EXCEPT !.out.total = Cardinality(rows)]
                 IN  Set(s, IF pc = "query" THEN [q EXCEPT !.pc = "counted"]
                            ELSE Answer(q))
    /\ UNCHANGED <<gateVars, storeVars>>

\* GET /api/admin/categories up to Promise.all
CatList(s, Hdrs, Queries) == List(s, "catList", Hdrs, Queries)

\* GET /api/admin/categories: prisma.category.findMany and count
CatListQuery(s) == ListQuery(s, "catList", CategoryWhere(reqs[s].query))

\* a second categories listing, served under another path than
\* /api/admin/categories (whose route file is CatList's): it checks no token
CatListOpen(s, Hdrs) ==
    /\ Free(s)
    /\ \E hdr \in Hdrs :
          LET r == NewReq("catListOpen", hdr, 0, NoBody)
          IN  Set(s, Respond(Called(r, 2), 200))
    /\ UNCHANGED <<gateVars, storeVars>>

\* GET /api/admin/categories/{id}
CatGet(s, Hdrs) ==
    /\ Free(s)
    /\ \E hdr \in Hdrs :
          IF Unauthorized(hdr) THEN Denied(s, "catGet", hdr)
          ELSE
          \E id \in CategoryIds :
          LET r == NewReq("catGet", hdr, id, NoBody)
          IN  IF CategoryById(id) = {} THEN Set(s, Respond(Called(r, 1), 404))
              ELSE Set(s, Respond(Called(r, 1), 200))
    /\ UNCHANGED <<gateVars, storeVars>>

\* POST /api/admin/categories up to the findUnique by name
CatPost(s, Hdrs) ==
    /\ Free(s)
    /\ \E hdr \in Hdrs :
          IF Unauthorized(hdr) THEN Denied(s, "catPost", hdr)
          ELSE
          \E body \in CategoryBodies :
          LET r == NewReq("catPost", hdr, 0, body)
          IN  IF body.shape # "ok" THEN Set(s, Respond(r, 400))
              ELSE IF CategoryByName(body.name) # {}
                   THEN Set(s, Respond([Called(r, 1) EXCEPT !.conflict = TRUE], 400))
              ELSE /\ nextId.category + Running("catPost") <= MaxCategories
                   /\ Set(s, [Called(r, 1) EXCEPT !.pc = "create"])
    /\ UNCHANGED <<gateVars, storeVars>>

\* POST /api/admin/categories: prisma.category.create
CatPostCreate(s) ==
    /\ At(s, "catPost", "create")
    /\ LET r == Called(reqs[s], 1)
       IN  IF NameKeyViolated(0, r.body.name)
           THEN /\ Set(s, Respond([r EXCEPT !.conflict = TRUE], 500))
                /\ UNCHANGED storeVars
           ELSE /\ categories' = categories \cup
                      {[id |-> nextId.category, name |-> r.body.name, createdAt |-> now]}
                /\ nextId' = [nextId EXCEPT !.category = @ + 1]
                /\ Set(s, Respond([r EXCEPT !.id = nextId.category], 201))
                /\ UNCHANGED <<users, menus, storage, now>>
    /\ UNCHANGED gateVars

\* PUT /api/admin/categories/{id} up to the findUnique by id
CatPut(s, Hdrs) ==
    /\ Free(s)
    /\ \E hdr \in Hdrs :
          IF Unauthorized(hdr) THEN Denied(s, "catPut", hdr)
          ELSE
          \E id \in CategoryIds, body \in CategoryBodies :
          LET r == NewReq("catPut", hdr, id, body)
          IN  IF body.shape # "ok" THEN Set(s, Respond(r, 400))
              ELSE IF CategoryById(id) = {} THEN Set(s, Respond(Called(r, 1), 404))
              ELSE Set(s, [Called(r, 1) EXCEPT !.pc = "checkName"])
    /\ UNCHANGED <<gateVars, storeVars>>

\* PUT /api/admin/categories/{id}: findFirst of another row with the name
CatPutCheckName(s) ==
    /\ At(s, "catPut", "checkName")
    /\ LET r == Called(reqs[s], 1)
       IN  IF NameKeyViolated(r.id, r.body.name)
           THEN Set(s, Respond([r EXCEPT !.conflict = TRUE], 400))
           ELSE Set(s, [r EXCEPT !.pc = "update"])
    /\ UNCHANGED <<gateVars, storeVars>>

\* PUT /api/admin/categories/{id}: prisma.category.update
CatPutUpdate(s) ==
    /\ At(s, "catPut", "update")
    /\ LET r == Called(reqs[s], 1)
       IN  IF CategoryById(r.id) = {}
           THEN /\ Set(s, Respond(r, 500))
                /\ UNCHANGED storeVars
           ELSE IF NameKeyViolated(r.id, r.body.name)
           THEN /\ Set(s, Respond([r EXCEPT !.conflict = TRUE], 500))
                /\ UNCHANGED storeVars
           ELSE /\ categories' = (categories \ CategoryById(r.id)) \cup
                      {[c EXCEPT !.name = r.body.name] : c \in CategoryById(r.id)}
                /\ Set(s, Respond(r, 200))
                /\ UNCHANGED <<users, menus, storage, nextId, now>>
    /\ UNCHANGED gateVars

\* DELETE /api/admin/categories/{id} up to the findUnique with _count.menus
CatDelete(s, Hdrs) ==
    /\ Free(s)
    /\ \E hdr \in Hdrs :
          IF Unauthorized(hdr) THEN Denied(s, "catDelete", hdr)
          ELSE
          \E id \in CategoryIds :
          LET r == NewReq("catDelete", hdr, id, NoBody)
          IN  IF CategoryById(id) = {} THEN Set(s, Respond(Called(r, 1), 404))
              ELSE IF Cardinality(MenusOf(id)) > 0
                   THEN Set(s, Respond([Called(r, 1) EXCEPT !.conflict = TRUE], 400))
              ELSE Set(s, [Called(r, 1) EXCEPT !.pc = "delete"])
    /\ UNCHANGED <<gateVars, storeVars>>

\* DELETE /api/admin/categories/{id}: prisma.category.delete
CatDeleteWrite(s) ==
    /\ At(s, "catDelete", "delete")
    /\ LET r == Called(reqs[s], 1)
       IN  IF CategoryById(r.id) = {}
           THEN /\ Set(s, Respond(r, 500))
                /\ UNCHANGED storeVars
           ELSE IF FkRestrictsDelete(r.id)
           THEN /\ Set(s, Respond([r EXCEPT !.conflict = TRUE], 500))
                /\ UNCHANGED storeVars
           ELSE /\ categories' = categories \ CategoryById(r.id)
                /\ Set(s, Respond(r, 200))
                /\ UNCHANGED <<users, menus, storage, nextId, now>>
    /\ UNCHANGED gateVars

(***************************************************************************)
(* /api/admin/menus                                                        *)
(***************************************************************************)
\* a JavaScript value is truthy: a number other than 0
Truthy(x) == IsNum(x) /\ x.v # 0

\* a column left undefined in a create is stored as NULL
Stored(x) == IF x = Undef THEN Null ELSE x

\* finalData.discountPercent of POST /api/admin/menus
CreateDiscountPercent(body) ==
    IF Truthy(body.discountedPrice) /\ ~Truthy(body.discountPercent)
    THEN Num(DiscountPercent(body.price.v, body.discountedPrice.v))
    ELSE IF Truthy(body.discountPercent) THEN body.discountPercent ELSE Null

\* finalData of POST /api/admin/menus: the row prisma.menu.create inserts
FinalData(id, body, key) ==
    [id |-> id, name |-> body.name, description |-> body.description,
     createdAt |-> now, categoryId |-> body.categoryId, price |-> body.price.v,
     discountedPrice |->
        IF Truthy(body.discountedPrice) THEN body.discountedPrice ELSE Null,
     discountPercent |-> CreateDiscountPercent(body),
     status |-> IF body.status = None THEN "DRAFT" ELSE body.status,
     imageKey |-> key]

\* finalData.discountPercent of the POST handler of src/unnamed/part_005
LegacyDiscountPercent(body) ==
    IF Truthy(body.discountedPrice) /\ ~Truthy(body.discountPercent)
    THEN Num(DiscountPercent(body.price.v, body.discountedPrice.v))
    ELSE body.discountPercent

\* finalData of the POST handler of src/unnamed/part_005
LegacyFinalData(id, body) ==
    [id |-> id, name |-> body.name, description |-> body.description,
     createdAt |-> now, categoryId |-> body.categoryId, price |-> body.price.v,
     discountedPrice |-> Stored(body.discountedPrice),
     discountPercent |-> Stored(LegacyDiscountPercent(body)),
     status |-> IF body.status = None THEN "DRAFT" ELSE body.status,
     imageKey |-> IF IsNum(body.imageKey) THEN body.imageKey.v ELSE 0]

\* updateData.discountPercent of PUT /api/admin/menus/{id}
UpdateDiscountPercent(body) ==
    IF Truthy(body.price) /\ Truthy(body.discountedPrice)
    THEN Num(DiscountPercent(body.price.v, body.discountedPrice.v))
    ELSE IF body.discountedPrice = Null THEN Null
    ELSE body.discountPercent

\* prisma.menu.update: a field left undefined keeps the value of the row
Change(old, new) == IF new = Undef THEN old ELSE new

\* the row after prisma.menu.update with updateData; key is the key of the
\* image this request uploaded (0: none)
UpdatedRow(row, body, key) ==
    [id |-> row.id,
     name |-> IF body.name = None THEN row.name ELSE body.name,
     description |->
        IF body.description = {} THEN row.description ELSE body.description,
     createdAt |-> row.createdAt,
     categoryId |-> IF body.categoryId = 0 THEN row.categoryId ELSE body.categoryId,
     price |-> IF IsNum(body.price) THEN body.price.v ELSE row.price,
     discountedPrice |-> Change(row.discountedPrice, body.discountedPrice),
     discountPercent |-> Change(row.discountPercent, UpdateDiscountPercent(body)),
     status |-> IF body.status = None THEN row.status ELSE body.status,
     imageKey |-> IF key # 0 THEN key
                  ELSE IF body.imageKey = Undef THEN row.imageKey
                  ELSE IF body.imageKey = Null THEN 0
                  ELSE body.imageKey.v]

\* the handler parses the body: the status it answers a bad body with (0: the
\* body is accepted).  JSON.parse throws a SyntaxError, which the catch block
\* does not tell from any other error.
ParseStatus(op, body) ==
    IF body.shape = "noData"
    THEN (IF op = "menuPut" THEN 0 ELSE IF op = "menuPost" THEN 400 ELSE 500)
    ELSE IF body.shape = "malformed" THEN 500
    ELSE IF body.shape = "invalid" THEN 400
    ELSE 0

\* GET /api/admin/menus up to Promise.all
MenuList(s, Hdrs, Queries) == List(s, "menuList", Hdrs, Queries)

\* GET /api/admin/menus: prisma.menu.findMany and count
MenuListQuery(s) == ListQuery(s, "menuList", MenuWhere(reqs[s].query))

\* the GET handler of src/unnamed/part_005: the listing
MenuListLegacy(s, Hdrs) ==
    /\ Free(s)
    /\ \E hdr \in Hdrs :
          LET r == NewReq("menuListLegacy", hdr, 0, NoBody)
          IN  IF Unauthorized(hdr) THEN Denied(s, "menuListLegacy", hdr)
              ELSE Set(s, Respond(Called(r, 2), 200))
    /\ UNCHANGED <<gateVars, storeVars>>

\* GET /api/admin/menus/{id}
MenuGet(s, Hdrs) ==
    /\ Free(s)
    /\ \E hdr \in Hdrs :
          IF Unauthorized(hdr) THEN Denied(s, "menuGet", hdr)
          ELSE
          \E id \in MenuIds :
          LET r == NewReq("menuGet", hdr, id, NoBody)
          IN  IF MenuById(id) = {} THEN Set(s, Respond(Called(r, 1), 404))
              ELSE Set(s, Respond(Called(r, 1), 200))
    /\ UNCHANGED <<gateVars, storeVars>>

\* the menu creations that have passed the category check and will insert
CreatingMenus == Running("menuPost") + Running("menuPostLegacy")

\* the uploads that are still to come
Uploading ==
    Cardinality({t \in Slots : reqs[t].pc \in {"upload", "deleteOld"}})

\* POST /api/admin/menus up to the findUnique of the category and the
\* validation of the image file
MenuPost(s, Hdrs, Bodies) ==
    /\ Free(s)
    /\ \E hdr \in Hdrs :
          IF Unauthorized(hdr) THEN Denied(s, "menuPost", hdr)
          ELSE
          \E body \in Bodies :
          LET r == NewReq("menuPost", hdr, 0, body)
          IN  IF ParseStatus("menuPost", body) # 0
                   THEN Set(s, Respond(r, ParseStatus("menuPost", body)))
              ELSE IF CategoryById(body.categoryId) = {}
                   THEN Set(s, Respond(Called(r, 1), 400))
              ELSE IF body.image = "badType" THEN Set(s, Respond(Called(r, 1), 400))
              ELSE /\ nextId.menu + CreatingMenus <= MaxMenus
                   /\ body.image # None => nextId.image + Uploading <= MaxImages
                   /\ Set(s, [Called(r, 1) EXCEPT
                                 !.pc = IF body.image # None THEN "upload"
                                        ELSE "create"])
    /\ UNCHANGED <<gateVars, storeVars>>

\* a catch around uploadImage that logs the failure and goes on to the write
UploadFailedIgnored(r, next) == [r EXCEPT !.pc = next]

\* catch (uploadError): the handler answers 500 "Failed to upload image"
UploadFailed(r, next) == Respond(r, 500)

\* POST /api/admin/menus: uploadImage, which stores the object or throws
MenuPostUpload(s) ==
    /\ At(s, "menuPost", "upload")
    /\ LET r == Called(reqs[s], 1)
       IN  \/ /\ Set(s, UploadFailed(r, "create"))
              /\ UNCHANGED storeVars
           \/ /\ storage' = storage \cup {nextId.image}
              /\ nextId' = [nextId EXCEPT !.image = @ + 1]
              /\ Set(s, [r EXCEPT !.key = nextId.image, !.pc = "create"])
              /\ UNCHANGED <<users, categories, menus, now>>
    /\ UNCHANGED gateVars

\* prisma.menu.create of a POST handler
MenuCreate(s, op, row) ==
    /\ At(s, op, "create")
    /\ LET r == Called(reqs[s], 1)
       IN  IF ~FkAccepts(r.body.categoryId)
           THEN /\ Set(s, Respond([r EXCEPT !.conflict = TRUE], 500))
                /\ UNCHANGED storeVars
           ELSE /\ menus' = menus \cup {row}
                /\ nextId' = [nextId EXCEPT !.menu = @ + 1]
                /\ Set(s, Respond(r, 201))
                /\ UNCHANGED <<users, categories, storage, now>>
    /\ UNCHANGED gateVars

\* POST /api/admin/menus: prisma.menu.create
MenuPostCreate(s) ==
    MenuCreate(s, "menuPost", FinalData(nextId.menu, reqs[s].body, reqs[s].key))

\* the POST handler of src/unnamed/part_005 up to the findUnique of the category
MenuPostLegacy(s, Hdrs, Bodies) ==
    /\ Free(s)
    /\ \E hdr \in Hdrs :
          IF Unauthorized(hdr) THEN Denied(s, "menuPostLegacy", hdr)
          ELSE
          \E body \in Bodies :
          LET r == NewReq("menuPostLegacy", hdr, 0, body)
          IN  IF ParseStatus("menuPostLegacy", body) # 0
                   THEN Set(s, Respond(r, ParseStatus("menuPostLegacy", body)))
              ELSE IF CategoryById(body.categoryId) = {}
                   THEN Set(s, Respond(Called(r, 1), 400))
              ELSE /\ nextId.menu + CreatingMenus <= MaxMenus
                   /\ Set(s, [Called(r, 1) EXCEPT !.pc = "create"])
    /\ UNCHANGED <<gateVars, storeVars>>

\* the POST handler of src/unnamed/part_005: prisma.menu.create
MenuPostLegacyCreate(s) ==
    MenuCreate(s, "menuPostLegacy", LegacyFinalData(nextId.menu, reqs[s].body))

\* where PUT continues once the category is settled
AfterCategory(r) ==
    IF r.body.image # None THEN (IF r.old # 0 THEN "deleteOld" ELSE "upload")
    ELSE "update"

\* PUT /api/admin/menus/{id} up to the findUnique of the menu
MenuPut(s, Hdrs, Bodies) ==
    /\ Free(s)
    /\ \E hdr \in Hdrs :
          IF Unauthorized(hdr) THEN Denied(s, "menuPut", hdr)
          ELSE
          \E id \in MenuIds, body \in Bodies :
          LET r == NewReq("menuPut", hdr, id, body)
          IN  IF ParseStatus("menuPut", body) # 0
                   THEN Set(s, Respond(r, ParseStatus("menuPut", body)))
              ELSE IF MenuById(id) = {} THEN Set(s, Respond(Called(r, 1), 404))
              ELSE LET existingMenu == CHOOSE m \in MenuById(id) : TRUE
                       q == [Called(r, 1) EXCEPT !.old = existingMenu.imageKey]
                   IN  /\ body.image # None => nextId.image + Uploading <= MaxImages
                       /\ Set(s, [q EXCEPT !.pc = IF body.categoryId # 0
                                                  THEN "checkCategory"
                                                  ELSE AfterCategory(q)])
    /\ UNCHANGED <<gateVars, storeVars>>

\* PUT /api/admin/menus/{id}: findUnique of the category
MenuPutCheckCategory(s) ==
    /\ At(s, "menuPut", "checkCategory")
    /\ LET r == Called(reqs[s], 1)
       IN  IF CategoryById(r.body.categoryId) = {} THEN Set(s, Respond(r, 400))
           ELSE Set(s, [r EXCEPT !.pc = AfterCategory(r)])
    /\ UNCHANGED <<gateVars, storeVars>>

\* PUT /api/admin/menus/{id}: deleteImage of the old image, which removes the
\* object or throws
MenuPutDeleteOld(s) ==
    /\ At(s, "menuPut", "deleteOld")
    /\ LET r == Called(reqs[s], 1)
       IN  \/ /\ Set(s, Respond(r, 500))
              /\ UNCHANGED storeVars
           \/ /\ storage' = storage \ {r.old}
              /\ Set(s, [r EXCEPT !.pc = "upload"])
              /\ UNCHANGED <<users, categories, menus, nextId, now>>
    /\ UNCHANGED gateVars

\* PUT /api/admin/menus/{id}: uploadImage, which stores the object or throws;
\* it throws on a file of a type that is not allowed
MenuPutUpload(s) ==
    /\ At(s, "menuPut", "upload")
    /\ LET r == Called(reqs[s], 1)
       IN  \/ /\ Set(s, UploadFailed(r, "update"))
              /\ UNCHANGED storeVars
           \/ /\ r.body.image = "valid"
              /\ storage' = storage \cup {nextId.image}
              /\ nextId' = [nextId EXCEPT !.image = @ + 1]
              /\ Set(s, [r EXCEPT !.key = nextId.image, !.pc = "update"])
              /\ UNCHANGED <<users, categories, menus, now>>
    /\ UNCHANGED gateVars

\* PUT /api/admin/menus/{id}: prisma.menu.update
MenuPutUpdate(s) ==
    /\ At(s, "menuPut", "update")
    /\ LET r == Called(reqs[s], 1)
       IN  IF MenuById(r.id) = {}
           THEN /\ Set(s, Respond(r, 500))
                /\ UNCHANGED storeVars
           ELSE IF r.body.categoryId # 0 /\ ~FkAccepts(r.body.categoryId)
           THEN /\ Set(s, Respond([r EXCEPT !.conflict = TRUE], 500))
                /\ UNCHANGED storeVars
           ELSE /\ menus' = (menus \ MenuById(r.id)) \cup
                      {UpdatedRow(CHOOSE m \in MenuById(r.id) : TRUE, r.body, r.key)}
                /\ Set(s, Respond(r, 200))
                /\ UNCHANGED <<users, categories, storage, nextId, now>>
    /\ UNCHANGED gateVars

\* DELETE /api/admin/menus/{id} up to the findUnique of the menu
MenuDelete(s, Hdrs) ==
    /\ Free(s)
    /\ \E hdr \in Hdrs :
          IF Unauthorized(hdr) THEN Denied(s, "menuDelete", hdr)
          ELSE
          \E id \in MenuIds :
          LET r == NewReq("menuDelete", hdr, id, NoBody)
          IN  IF MenuById(id) = {} THEN Set(s, Respond(Called(r, 1), 404))
              ELSE LET existingMenu == CHOOSE m \in MenuById(id) : TRUE
                   IN  Set(s, [Called(r, 1) EXCEPT
                                  !.old = existingMenu.imageKey,
                                  !.pc = IF existingMenu.imageKey # 0
                                         THEN "deleteImage" ELSE "delete"])
    /\ UNCHANGED <<gateVars, storeVars>>

\* DELETE /api/admin/menus/{id}: the catch around deleteImage answers 500
DeleteImageFailedAborts(r) == Respond(Called(r, 1), 500)

\* DELETE /api/admin/menus/{id}: the catch around deleteImage logs the failure
\* and the handler continues with the deletion of the row
DeleteImageFailed(r) == [Called(r, 1) EXCEPT !.pc = "delete"]

\* DELETE /api/admin/menus/{id}: deleteImage removes the object or throws
MenuDeleteImage(s) ==
    /\ At(s, "menuDelete", "deleteImage")
    /\ \/ /\ storage' = storage \ {reqs[s].old}
          /\ Set(s, [Called(reqs[s], 1) EXCEPT !.pc = "delete"])
       \/ /\ storage' = storage
          /\ Set(s, DeleteImageFailed(reqs[s]))
    /\ UNCHANGED <<gateVars, users, categories, menus, nextId, now>>

\* DELETE /api/admin/menus/{id}: prisma.menu.delete; the answer keeps the id and
\* the image key of the request
MenuDeleteWrite(s) ==
    /\ At(s, "menuDelete", "delete")
    /\ LET r == Called(reqs[s], 1)
       IN  IF MenuById(r.id) = {}
           THEN /\ Set(s, Respond(r, 500))
                /\ UNCHANGED storeVars
           ELSE /\ menus' = menus \ MenuById(r.id)
                /\ Set(s, [Respond(r, 200) EXCEPT !.id = r.id, !.old = r.old])
                /\ UNCHANGED <<users, categories, storage, nextId, now>>
    /\ UNCHANGED gateVars

(***************************************************************************)
(* GET /api/public/menu                                                    *)
(***************************************************************************)
\* where of the categories: the name contains the filter, if there is one, and
\* some menu of the category is PUBLISHED
PublicCategoryWhere(q) ==
    {c \in categories :
        /\ q.category # "" => ContainsInsensitive(c.name, q.category)
        /\ \E m \in MenusOf(c.id) : m.status = "PUBLISHED"}

\* an include that selects the menus of every status
MenusOfAnyStatus == menus

\* include.menus.where: the menus the include selects
PublishedMenus == {m \in menus : m.status = "PUBLISHED"}

\* a handler that answers an empty listing with 404
PublicStatusNotFound(items) == IF items = <<>> THEN 404 ELSE 200

\* the status of the response: NextResponse.json(response, { headers })
PublicStatus(items) == 200

\* a menu of the response: a discountedPrice and a discountPercent that are
\* null or 0 are left out
PublicMenuOf(m) ==
    [id |-> m.id, name |-> m.name, description |-> m.description,
     price |-> m.price,
     discountedPrice |-> IF Truthy(m.discountedPrice) THEN m.discountedPrice ELSE Undef,
     discountPercent |-> IF Truthy(m.discountPercent) THEN m.discountPercent ELSE Undef]

\* a category of the response, its menus in the order the store gave them
PublicCategoryOf(c, ms) ==
    [id |-> c.id, name |-> toUpperCase(Spell(c.name)),
     menus |-> [i \in 1..Len(ms) |-> PublicMenuOf(ms[i])]]

\* GET /api/public/menu: one findMany, categories and their menus ordered by
\* createdAt ascending; no token is asked for
PublicMenu(s, Hdrs, Queries) ==
    /\ Free(s)
    /\ \E hdr \in Hdrs, q \in Queries :
       \E cs \in Orderings(PublicCategoryWhere(q), "asc") :
       \E ms \in Orderings(PublishedMenus, "asc") :
          LET r == [NewReq("publicMenu", hdr, 0, NoBody) EXCEPT !.query = q]
              Of(c) == LET In(m) == m.categoryId = c.id
                       IN  PublicCategoryOf(c, SelectSeq(ms, In))
              items == [i \in 1..Len(cs) |-> Of(cs[i])]
          IN  Set(s, Respond([Called(r, 1) EXCEPT !.out.items = items],
                             PublicStatus(items)))
    /\ UNCHANGED <<gateVars, storeVars>>

\* CURRENT_TIMESTAMP advances by a millisecond
Tick ==
    /\ now < MaxClock
    /\ now' = now + 1
    /\ UNCHANGED <<gateVars, users, categories, menus, storage, nextId, reqs>>

(***************************************************************************)
(* POST /api/auth/register                                                 *)
(***************************************************************************)
AdminEmail == "admin@adcatering.id"
Emails == {AdminEmail, "budi@mail.id", "sari@mail.id"}

AdminPassword == "rahasia-admin"

\* bcrypt.hash: a digest of the password under a salt, which it carries
bcryptHash(password, salt) == [salt |-> salt, digest |-> <<salt, password>>]

\* a comparison that every password passes
bcryptCompareAny(password, hash) == TRUE

\* bcrypt.compare: hashes the password under the salt of the hash
bcryptCompare(password, hash) == bcryptHash(password, hash.salt) = hash

\* the administrator account the deployment is seeded with
AdminUser ==
    [id |-> 1, email |-> AdminEmail, role |-> "ADMIN",
     password |-> bcryptHash(AdminPassword, "salt")]

\* a registration that takes the role from the body when it names one
RegisteredRoleOfBody(body) == IF body.role = None THEN "USER" ELSE body.role

\* the role of the row prisma.user.create inserts: role: "USER"
RegisteredRole(body) == "USER"

RegisterBodies ==
    {[NoBody EXCEPT !.email = e, !.password = pw, !.role = ro] :
        e \in Emails \cup {None}, pw \in {None, "short", "valid"},
        ro \in {None, "ADMIN"}}

UserByEmail(email) == {u \in users : u.email = email}

\* users_email_key: an insert of a second row with the email fails
EmailKeyViolated(email) == UserByEmail(email) # {}

\* POST /api/auth/register up to the findUnique by email
Register(s) ==
    /\ Free(s)
    /\ \E body \in RegisterBodies :
          LET r == NewReq("register", HdrMissing, 0, body)
          IN  IF body.email = None \/ body.password = None
              THEN Set(s, Respond(r, 400))
              ELSE IF body.password = "short" THEN Set(s, Respond(r, 400))
              ELSE IF UserByEmail(body.email) # {}
                   THEN Set(s, Respond([Called(r, 1) EXCEPT !.conflict = TRUE], 400))
              ELSE /\ nextId.user + Running("register") <= MaxUsers
                   /\ Set(s, [Called(r, 1) EXCEPT !.pc = "create"])
    /\ UNCHANGED <<gateVars, storeVars>>

\* POST /api/auth/register: prisma.user.create with role USER.  The request
\* that created a row keeps its body, and as id the id of the row.
RegisterCreate(s) ==
    /\ At(s, "register", "create")
    /\ LET r == Called(reqs[s], 1)
       IN  IF EmailKeyViolated(r.body.email)
           THEN /\ Set(s, Respond([r EXCEPT !.conflict = TRUE], 500))
                /\ UNCHANGED storeVars
           ELSE /\ users' = users \cup
                      {[id |-> nextId.user, email |-> r.body.email,
                        role |-> RegisteredRole(r.body),
                        password |-> bcryptHash(r.body.password, "salt")]}
                /\ nextId' = [nextId EXCEPT !.user = @ + 1]
                /\ Set(s, [Respond(r, 200) EXCEPT
                              !.body = r.body, !.id = nextId.user])
                /\ UNCHANGED <<categories, menus, storage, now>>
    /\ UNCHANGED gateVars

LoginBodies ==
    {[NoBody EXCEPT !.email = e, !.password = pw] :
        e \in Emails \cup {None}, pw \in {None, "valid", "wrong", AdminPassword}}

\* jwt.sign of the login handler: the id and email of the user, user_role
\* "admin"
SignedToken(user) ==
    [userId |-> user.id, email |-> user.email, user_role |-> "admin"]

\* a login route that lets every role in
LoginRoleDeniedNever(user) == FALSE

\* user.role !== "ADMIN": the login route is for administrators only
LoginRoleDenied(user) == user.role # "ADMIN"

\* POST /api/auth/login.  The request keeps its body, and as id the id of
\* the user row that findUnique returned (0: none).
Login(s) ==
    /\ Free(s)
    /\ \E body \in LoginBodies :
          LET r == NewReq("login", HdrMissing, 0, body)
              found == UserByEmail(body.email)
              user == CHOOSE u \in found : TRUE
              Answer(q, st, uid, token) ==
                  Set(s, [Respond(q, st) EXCEPT
                             !.body = body, !.id = uid, !.out.token = token,
                             !.out.role = IF st = 200 THEN user.role ELSE None])
          IN  IF body.email = None \/ body.password = None
                   THEN Answer(r, 400, 0, NoJwt)
              ELSE IF found = {} THEN Answer(Called(r, 1), 401, 0, NoJwt)
              ELSE IF LoginRoleDenied(user)
                   THEN Answer(Called(r, 1), 403, user.id, NoJwt)
              ELSE IF ~bcryptCompare(body.password, user.password)
                   THEN Answer(Called(r, 1), 401, user.id, NoJwt)
              ELSE Answer(Called(r, 1), 200, user.id, SignedToken(user))
    /\ UNCHANGED <<gateVars, storeVars>>

(***************************************************************************)
(* The credentials sign-in of src/lib/auth.ts and the browser's session    *)
(***************************************************************************)
\* authorize, callbacks.jwt and callbacks.session on the response of the
\* login route that authorize fetched: when the response is ok, the session
\* cookie carries data.user.role; otherwise authorize returns null and the
\* browser keeps the session it had
Authorize(s) ==
    /\ At(s, "login", "done")
    /\ phase # "pending"
    /\ browser' = [browser EXCEPT
                      !.session = IF reqs[s].status = 200 THEN reqs[s].out.role
                                  ELSE @]
    /\ Set(s, IdleReq)
    /\ UNCHANGED <<phase, resp, storeVars>>

\* the browser requests a page with the session it holds
Visit ==
    /\ phase # "pending"
    /\ \E p \in Paths : browser' = [browser EXCEPT !.path = p, !.hops = 0]
    /\ phase' = "pending"
    /\ resp' = NextResponse
    /\ UNCHANGED apiVars

\* signOut, or the session cookie reaches its maxAge
SignOut ==
    /\ phase # "pending" /\ browser.session # None
    /\ browser' = [browser EXCEPT !.session = None]
    /\ UNCHANGED <<phase, resp, apiVars>>

(***************************************************************************)
(* The data fetch of the admin pages (add-menu page: fetchCategories; list  *)
(* pages: fetchCategories and fetchMenus, which retry in the same way).    *)
(* fetchCategories is a useCallback that depends on retryCount: each       *)
(* render with a new retryCount creates a new closure that reads that      *)
(* retryCount, and the effect that depends on fetchCategories runs it.     *)
(* A fetch or a timer belongs to the closure that started it and carries   *)
(* the retryCount that closure reads.                                      *)
(***************************************************************************)
MAX_RETRIES == 3
RETRY_DELAY == 1000

\* apiRequest calls a page makes before the model stops it
MaxCalls == 7

MathPow(b, e) == b ^ e

\* the delay of the timer a closure schedules
RetryDelay(k) == RETRY_DELAY * MathPow(2, k)

\* the closure that reads retryCount = k is called: up to the await
Call(c, k) ==
    [c EXCEPT !.loading = TRUE, !.error = FALSE, !.calls = @ + 1,
              !.fetches = @ \cup {[n |-> c.calls + 1, retryCount |-> k]}]

\* the render after a state update: when retryCount differs from the one of
\* the last render, fetchCategories is a new function and the effect calls it
Effect(c, rendered) ==
    IF c.retryCount # rendered THEN Call(c, c.retryCount) ELSE c

\* the effect after the first render of an authenticated session
Mount ==
    /\ ~client.mounted
    /\ client' = Call([client EXCEPT !.mounted = TRUE], 0)
    /\ UNCHANGED serverVars

\* apiRequest throws: the catch and finally blocks of the closure, then the
\* render they cause
FetchFailed ==
    /\ \E f \in client.fetches :
          LET caught == [client EXCEPT !.fetches = @ \ {f}, !.error = TRUE,
                                       !.loading = FALSE]
              timer == [n |-> f.n, retryCount |-> f.retryCount,
                        delay |-> RetryDelay(f.retryCount)]
              retried == [caught EXCEPT !.retryCount = @ + 1,
                                        !.timers = @ \cup {timer}]
          IN  IF f.retryCount < MAX_RETRIES
              THEN /\ client.calls < MaxCalls
                   /\ client' = Effect(retried, client.retryCount)
              ELSE client' = caught
    /\ UNCHANGED serverVars

\* apiRequest resolves: the rest of the try block, then the render it causes
FetchSucceeded ==
    /\ \E f \in client.fetches :
          /\ client.retryCount = 0 \/ client.calls < MaxCalls
          /\ client' = Effect([client EXCEPT !.fetches = @ \ {f},
                                             !.retryCount = 0,
                                             !.loading = FALSE,
                                             !.clean = FALSE],
                              client.retryCount)
    /\ UNCHANGED serverVars

\* a timer expires and calls the closure that scheduled it
TimerFires ==
    /\ client.calls < MaxCalls
    /\ \E t \in client.timers :
          client' = Call([client EXCEPT !.timers = @ \ {t}], t.retryCount)
    /\ UNCHANGED serverVars

\* the error banner with the Retry button is on the page
ErrorBanner(c) == c.error /\ c.retryCount >= MAX_RETRIES

\* the Retry button: setRetryCount(0), a call of the current closure, then
\* the render of retryCount = 0
handleRetryCategories ==
    /\ ErrorBanner(client)
    /\ client.calls + 2 <= MaxCalls
    /\ client' = Effect(Call([client EXCEPT !.retryCount = 0,
                                            !.clean = FALSE],
                             client.retryCount),
                        client.retryCount)
    /\ UNCHANGED serverVars

(***************************************************************************)
(* Specifications                                                          *)
(***************************************************************************)
StoreInit ==
    /\ users = {AdminUser}
    /\ categories = {}
    /\ menus = {}
    /\ storage = {}
    /\ nextId = [category |-> 1, menu |-> 1, image |-> 1, user |-> 2]
    /\ now = 0
    /\ reqs = [s \in Slots |-> IdleReq]

Init == GateInit /\ StoreInit

\* the browser and the edge request gate
GateNext == Navigate \/ Gate

SpecGate == Init /\ [][GateNext]_vars

\* the browser, the gate and the pages: every request is followed through its
\* redirects until a page is rendered
RedirectNext == Request \/ Gate \/ Page \/ Follow

SpecRedirect ==
    /\ Init /\ [][RedirectNext]_vars
    /\ WF_vars(Gate) /\ WF_vars(Page) /\ WF_vars(Follow)

\* registrations and logins running concurrently
AuthNext == \E s \in Slots : Register(s) \/ RegisterCreate(s) \/ Login(s)

SpecAuth == Init /\ [][AuthNext]_vars

\* accounts are registered, users sign in with credentials and browse with
\* the session they got, one request to the auth routes at a time
SessionNext ==
    \/ Register("r1") \/ RegisterCreate("r1") \/ Login("r1") \/ Authorize("r1")
    \/ Visit \/ Gate \/ SignOut

SpecSession == Init /\ [][SessionNext]_vars

\* an admin page of an authenticated session fetches its data; every fetch may
\* fail or succeed, and the user may click Retry when the banner offers it
RetryNext ==
    Mount \/ FetchFailed \/ FetchSucceeded \/ TimerFires \/ handleRetryCategories

SpecRetry == Init /\ [][RetryNext]_vars

MaxPrice == 40

\* the bodies of the menu requests of SpecApi and SpecGuard: the category
\* and the image vary
ApiBody(categoryId, image) ==
    [NoBody EXCEPT !.name = "Paket 1", !.description = {"Nasi", "Ayam bakar"},
                   !.price = Num(MaxPrice),
                   !.categoryId = categoryId, !.image = image]

BadBodies ==
    {[NoBody EXCEPT !.shape = sh] : sh \in {"invalid", "malformed", "noData"}}

ApiPostBodies == {ApiBody(c, None) : c \in CategoryIds}

ApiPutBodies == {[NoBody EXCEPT !.categoryId = c] : c \in CategoryIds \cup {0}}

\* the writing handlers of the admin routes, called by an administrator with
\* requests that carry no image: a request to the category routes and a
\* request to the menu routes run concurrently against the store
ApiNext ==
    \/ CatPost("r1", {HdrAdmin}) \/ CatPostCreate("r1")
    \/ CatPut("r1", {HdrAdmin}) \/ CatPutCheckName("r1") \/ CatPutUpdate("r1")
    \/ CatDelete("r1", {HdrAdmin}) \/ CatDeleteWrite("r1")
    \/ MenuPost("r2", {HdrAdmin}, ApiPostBodies) \/ MenuPostCreate("r2")
    \/ MenuPut("r2", {HdrAdmin}, ApiPutBodies) \/ MenuPutCheckCategory("r2")
    \/ MenuPutUpdate("r2")
    \/ MenuDelete("r2", {HdrAdmin}) \/ MenuDeleteWrite("r2")

SpecApi == Init /\ [][ApiNext]_vars

\* the create and rename handlers of the category routes, called by an
\* administrator: two requests run concurrently against the store
CatNext ==
    \E s \in Slots :
       \/ CatPost(s, {HdrAdmin}) \/ CatPostCreate(s)
       \/ CatPut(s, {HdrAdmin}) \/ CatPutCheckName(s) \/ CatPutUpdate(s)

SpecCat == Init /\ [][CatNext]_vars

GuardPostBodies ==
    {ApiBody(1, i) : i \in {None, "valid", "badType"}} \cup BadBodies

GuardLegacyBodies == {ApiBody(1, None), [NoBody EXCEPT !.shape = "invalid"]}

GuardPutBodies ==
    {[NoBody EXCEPT !.categoryId = c, !.image = i] :
        c \in {0, 1}, i \in {None, "valid"}} \cup BadBodies

\* a store in use: of the categories, menus and images made so far one each
\* is left, and one more of each can be made
GuardInit ==
    /\ GateInit
    /\ now = 0
    /\ users = {AdminUser}
    /\ categories = {[id |-> 1, name |-> "Nasi Box", createdAt |-> 0]}
    /\ menus = {FinalData(1, ApiBody(1, "valid"), 1)}
    /\ storage = {1}
    /\ nextId = [category |-> MaxCategories, menu |-> MaxMenus,
                 image |-> MaxImages, user |-> 2]
    /\ reqs = [s \in Slots |-> IdleReq]

\* every admin route handler, called with every kind of Authorization header,
\* one request at a time
GuardNext ==
    \/ CatList("r1", Headers, {NoQuery}) \/ CatListQuery("r1")
    \/ CatListOpen("r1", Headers) \/ CatGet("r1", Headers)
    \/ CatPost("r1", Headers) \/ CatPostCreate("r1")
    \/ CatPut("r1", Headers) \/ CatPutCheckName("r1") \/ CatPutUpdate("r1")
    \/ CatDelete("r1", Headers) \/ CatDeleteWrite("r1")
    \/ MenuList("r1", Headers, {NoQuery}) \/ MenuListQuery("r1")
    \/ MenuListLegacy("r1", Headers)
    \/ MenuGet("r1", Headers)
    \/ MenuPost("r1", Headers, GuardPostBodies) \/ MenuPostUpload("r1")
    \/ MenuPostCreate("r1")
    \/ MenuPostLegacy("r1", Headers, GuardLegacyBodies)
    \/ MenuPostLegacyCreate("r1")
    \/ MenuPut("r1", Headers, GuardPutBodies) \/ MenuPutCheckCategory("r1")
    \/ MenuPutDeleteOld("r1") \/ MenuPutUpload("r1") \/ MenuPutUpdate("r1")
    \/ MenuDelete("r1", Headers) \/ MenuDeleteImage("r1") \/ MenuDeleteWrite("r1")

SpecGuard == GuardInit /\ [][GuardNext]_vars

\* the menus an administrator publishes or keeps as drafts
PublishPostBodies ==
    {[ApiBody(c, None) EXCEPT !.name = IF c = 1 THEN "Nasi Box" ELSE "Paket 1",
                              !.status = st] :
        c \in CategoryIds, st \in {None, "DRAFT", "PUBLISHED"}}

PublishPutBodies == {[NoBody EXCEPT !.status = st] : st \in {"DRAFT", "PUBLISHED"}}

MenuQueries ==
    {[NoQuery EXCEPT !.page = p, !.limit = l, !.search = w, !.categoryId = c,
                     !.status = st] :
        p \in {<<>>, <<"0">>, <<"2">>}, l \in {<<>>, <<"1">>}, w \in {"", "nasi"},
        c \in {0, 1},
        st \in {None, "DRAFT", "PUBLISHED"}}

PublicQueries == {[NoQuery EXCEPT !.category = w] : w \in {"", "nasi", "QIQ", "soto"}}

\* a store with the categories and no menu yet
PublishInit ==
    /\ GateInit
    /\ now = 0
    /\ users = {AdminUser}
    /\ categories = {[id |-> 1, name |-> "Nasi Box", createdAt |-> 0],
                     [id |-> 2, name |-> "Aqiqah", createdAt |-> 0]}
    /\ menus = {}
    /\ storage = {}
    /\ nextId = [category |-> MaxCategories + 1, menu |-> 1, image |-> 1, user |-> 2]
    /\ reqs = [s \in Slots |-> IdleReq]

\* an administrator creates, publishes, unpublishes and deletes menus and
\* lists them; a visitor reads the public menu; one request at a time
PublishNext ==
    \/ MenuPost("r1", {HdrAdmin}, PublishPostBodies) \/ MenuPostCreate("r1")
    \/ MenuPut("r1", {HdrAdmin}, PublishPutBodies) \/ MenuPutUpdate("r1")
    \/ MenuDelete("r1", {HdrAdmin}) \/ MenuDeleteWrite("r1")
    \/ MenuList("r1", {HdrAdmin}, MenuQueries) \/ MenuListQuery("r1")
    \/ PublicMenu("r1", {HdrMissing}, PublicQueries)

SpecPublish == PublishInit /\ [][PublishNext]_vars

\* the queries of a paginated listing, page >= 1 and limit >= 1
PageQueries(Pages) ==
    {[NoQuery EXCEPT !.page = DigitText(p), !.limit = DigitText(l), !.search = w] :
        p \in Pages, l \in 1..2, w \in {"", "nasi"}}

PageBodies == {[ApiBody(1, None) EXCEPT !.name = n] : n \in {"Paket 1", "Nasi Box"}}

IsListing(r) == r.op \in {"catList", "menuList"}

\* an administrator creates categories and menus while the clock runs, one
\* request at a time; once the store is left alone, one client reads the first
\* page of a listing and another client a later page
PageNext ==
    \/ /\ \A s \in Slots : ~IsListing(reqs[s])
       /\ \/ Tick
          \/ CatPost("r1", {HdrAdmin}) \/ CatPostCreate("r1")
          \/ MenuPost("r1", {HdrAdmin}, PageBodies) \/ MenuPostCreate("r1")
    \/ /\ \A s \in Slots : IsListing(reqs[s]) \/ Free(s)
       /\ \/ CatList("r1", {HdrAdmin}, PageQueries({1}))
          \/ MenuList("r1", {HdrAdmin}, PageQueries({1}))
          \/ CatList("r2", {HdrAdmin}, PageQueries(2..MaxPage))
          \/ MenuList("r2", {HdrAdmin}, PageQueries(2..MaxPage))
    \/ \E s \in Slots : CatListQuery(s) \/ MenuListQuery(s)

SpecPage == Init /\ [][PageNext]_vars

\* the prices of SpecPrice
PriceValues == {MaxPrice \div 2, MaxPrice}
DiscountedValues == {d \in 1..(MaxPrice + 1) : d % 4 = 1}
ClientPercents == {Undef, Null, Num(0), Num(50)}

PriceBody(price, discountedPrice, discountPercent) ==
    [NoBody EXCEPT !.name = "Paket 1", !.description = {"Nasi", "Ayam bakar"},
                   !.categoryId = 1, !.price = price,
                   !.discountedPrice = discountedPrice,
                   !.discountPercent = discountPercent]

PricePostBodies ==
    {PriceBody(Num(p), d, c) :
        p \in PriceValues,
        d \in {Undef, Null} \cup {Num(v) : v \in DiscountedValues},
        c \in ClientPercents}

\* the schema of src/unnamed/part_005 does not accept null
PriceLegacyBodies == {b \in PricePostBodies :
                         b.discountedPrice # Null /\ b.discountPercent # Null}

PricePutBodies ==
    {[PriceBody(p, d, c) EXCEPT !.name = None, !.description = {},
                                !.categoryId = 0] :
        p \in {Undef} \cup {Num(v) : v \in PriceValues},
        d \in {Undef, Null} \cup {Num(v) : v \in DiscountedValues},
        c \in ClientPercents}

\* a store with one category, in which one more menu can be created
PriceInit ==
    /\ GateInit
    /\ users = {AdminUser}
    /\ categories = {[id |-> 1, name |-> "Nasi Box", createdAt |-> 0]}
    /\ menus = {}
    /\ storage = {}
    /\ nextId = [category |-> 2, menu |-> MaxMenus, image |-> 1, user |-> 2]
    /\ now = 0
    /\ reqs = [s \in Slots |-> IdleReq]

\* an administrator creates a menu and updates its prices, one request at a
\* time
PriceNext ==
    \/ MenuPost("r1", {HdrAdmin}, PricePostBodies) \/ MenuPostCreate("r1")
    \/ MenuPostLegacy("r1", {HdrAdmin}, PriceLegacyBodies)
    \/ MenuPostLegacyCreate("r1")
    \/ MenuPut("r1", {HdrAdmin}, PricePutBodies) \/ MenuPutUpdate("r1")

SpecPrice == PriceInit /\ [][PriceNext]_vars

(***************************************************************************)
(* Properties                                                              *)
(***************************************************************************)
Done(s) == reqs[s].pc = "done"

\* the ten handlers of the routes under /api/admin; the listing CatListOpen
\* and the handlers of src/unnamed/part_005 are served under other paths
AdminOps ==
    {"catList", "catGet", "catPost", "catPut", "catDelete",
     "menuList", "menuGet", "menuPost", "menuPut", "menuDelete"}

\* the request of slot s came without the credentials of an admin: no
\* Authorization header, a scheme other than Bearer, a token with a bad
\* signature, an expired token, or a verified token of another role
Uncredentialed(s) ==
    \/ reqs[s].hdr.scheme # "Bearer"
    \/ reqs[s].hdr.token.sig # "good"
    \/ reqs[s].hdr.token.expired
    \/ reqs[s].hdr.token.user_role # "admin"

Answered == phase \in {"passed", "redirected"}

\* the path is /administrator or lies below it
UnderAdministrator(path) ==
    path = PAdministrator \/ StartsWith(path, PAdministrator \o <<"/">>)

\* the response is the redirect to /login?expired=true that deletes the four
\* session cookies
IsExpiredRedirect(r) ==
    /\ r.kind = "redirect" /\ r.location = PLogin /\ r.query = "expired=true"
    /\ r.deleted = {"next-auth.session-token", "__Secure-next-auth.session-token",
                    "next-auth.csrf-token", "__Host-next-auth.csrf-token"}

IsRedirectTo(r, path) == r.kind = "redirect" /\ r.location = path /\ r.query = ""

\* C2 as stated: every request without a session whose path starts with
\* /administrator is redirected to /login?expired=true with the four session
\* cookies deleted, and is never passed through.
C2_PrefixExpiredRedirect ==
    (Answered /\ browser.session = None /\ StartsWith(browser.path, PAdministrator))
        => (IsExpiredRedirect(resp) /\ phase = "redirected")

\* C2 as amended: every request without a session whose path is /administrator
\* or lies below /administrator/ is redirected to /login?expired=true with the
\* four session cookies deleted (the browser holds none of them afterwards),
\* and is never passed through.
C2_ExpiredRedirect ==
    (Answered /\ browser.session = None /\ UnderAdministrator(browser.path))
        => /\ IsExpiredRedirect(resp)
           /\ phase = "redirected"
           /\ browser.jar = {}

\* C2 witness: a request without a session to /administrator/menus has been
\* redirected
C2_Witness ==
    /\ phase = "redirected" /\ browser.session = None
    /\ browser.path = PAdminMenus /\ resp.location = PLogin

\* C3 as stated: a request with a session whose path starts with
\* /administrator is redirected to "/" exactly when the role is not ADMIN and
\* passes through unchanged exactly when the role is ADMIN.
C3_PrefixRoleGate ==
    (Answered /\ browser.session # None /\ StartsWith(browser.path, PAdministrator))
        => IF browser.session = "ADMIN"
           THEN resp = NextResponse /\ phase = "passed"
           ELSE IsRedirectTo(resp, PRoot) /\ phase = "redirected"

\* C3 as amended: a request with a session whose path is /administrator or
\* lies below /administrator/ is redirected to "/" exactly when the role is not
\* ADMIN and passes through unchanged exactly when the role is ADMIN.
C3_RoleGate ==
    (Answered /\ browser.session # None /\ UnderAdministrator(browser.path))
        => IF browser.session = "ADMIN"
           THEN resp = NextResponse /\ phase = "passed"
           ELSE IsRedirectTo(resp, PRoot) /\ phase = "redirected"

\* C3 witness: a USER session asking for /administrator/menus/add has been
\* redirected to the site root
C3_Witness ==
    /\ phase = "redirected" /\ browser.session = "USER"
    /\ browser.path = PAdminMenusAdd /\ resp.location = PRoot

\* C4: a request for /login with a session is redirected to /administrator
\* when the role is ADMIN and to "/" otherwise; without a session it passes
\* through.
C4_LoginRedirect ==
    (Answered /\ browser.path = PLogin)
        => IF browser.session = None THEN resp = NextResponse /\ phase = "passed"
           ELSE IF browser.session = "ADMIN"
                THEN IsRedirectTo(resp, PAdministrator) /\ phase = "redirected"
           ELSE IsRedirectTo(resp, PRoot) /\ phase = "redirected"

\* C4 witness: an ADMIN session asking for /login has been redirected to
\* /administrator
C4_Witness ==
    /\ phase = "redirected" /\ browser.session = "ADMIN"
    /\ browser.path = PLogin /\ resp.location = PAdministrator

\* C5: a request for /register with a session is redirected to /administrator
\* when the role is ADMIN and to "/" otherwise.
C5_RegisterRedirect ==
    (Answered /\ browser.path = PRegister /\ browser.session # None)
        => IF browser.session = "ADMIN"
           THEN IsRedirectTo(resp, PAdministrator)
           ELSE IsRedirectTo(resp, PRoot)

\* C6: a registration whose email belongs to a stored user when the handler
\* reaches the store is answered with 400, also when two requests register the
\* same new email at once.
C6_DuplicateEmailGets400 ==
    \A s \in Slots :
        (Done(s) /\ reqs[s].op = "register" /\ reqs[s].conflict)
            => reqs[s].status = 400

\* C7: the deletion of a category that owns a menu when the handler reaches the
\* store is answered with 400, in every interleaving with the requests that
\* attach a menu to it.
C7_OwningCategoryGets400 ==
    \A s \in Slots :
        (Done(s) /\ reqs[s].op = "catDelete" /\ reqs[s].conflict)
            => reqs[s].status = 400

\* C8: in every reachable state the categoryId of every stored menu refers to
\* exactly one stored category.
C8_MenuHasOneCategory ==
    \A m \in menus : Cardinality({c \in categories : c.id = m.categoryId}) = 1

\* C8 witness: a menu is stored and the deletion of a category has run into
\* the menus that had been attached to it after its count was read
C8_Witness ==
    /\ menus # {}
    /\ \E s \in Slots :
          /\ Done(s) /\ reqs[s].op = "catDelete"
          /\ reqs[s].conflict /\ reqs[s].status = 500

\* round(p) for the percentage p with discountedPrice = price * (1 - p/100),
\* in exact arithmetic, a half rounding up
RoundP(price, discountedPrice) ==
    (200 * (price - discountedPrice) + price) \div (2 * price)

\* the row the request of slot s writes in this step: the one a creation
\* inserts under the next id, the one an update was sent for
Written(s) ==
    CHOOSE m \in menus' :
        m.id = IF reqs[s].op = "menuPut" THEN reqs[s].id ELSE nextId.menu

\* the request of slot s is a menu creation about to insert its row
Creating(s) ==
    /\ reqs[s].pc = "create" /\ reqs[s].op \in {"menuPost", "menuPostLegacy"}
    /\ reqs'[s].pc = "done" /\ reqs'[s].status = 201

\* C9: a menu created with a price and the discountedPrice of a percentage p
\* (0 <= p < 100) and without discountPercent is stored with discountPercent
\* round(p).
C9_PercentIsRoundP ==
    [][\A s \in Slots :
          (/\ Creating(s)
           /\ reqs[s].body.discountPercent = Undef
           /\ IsNum(reqs[s].body.discountedPrice)
           /\ reqs[s].body.discountedPrice.v <= reqs[s].body.price.v)
              => Written(s).discountPercent
                    = Num(RoundP(reqs[s].body.price.v,
                                 reqs[s].body.discountedPrice.v))]_vars

\* the request of slot s is a menu update about to write its row
Updating(s) ==
    /\ reqs[s].pc = "update" /\ reqs[s].op = "menuPut"
    /\ reqs'[s].pc = "done" /\ reqs'[s].status = 200

\* C10: in menu create and menu update, a request that supplies price and
\* discountedPrice stores round((price - discountedPrice) / price * 100) as
\* discountPercent, whatever discountPercent the client supplied.
C10_PercentRecomputed ==
    [][\A s \in Slots :
          (/\ Creating(s) \/ Updating(s)
           /\ IsNum(reqs[s].body.price)
           /\ IsNum(reqs[s].body.discountedPrice))
              => Written(s).discountPercent
                    = Num(DiscountPercent(reqs[s].body.price.v,
                                          reqs[s].body.discountedPrice.v))]_vars

\* the user row that the login of slot s found (its id is kept in the request)
LoginUser(s) == CHOOSE u \in users : u.id = reqs[s].id

\* the login of slot s has been answered
LoggedIn(s) == Done(s) /\ reqs[s].op = "login"

\* the stored ADMIN users whose email and password the login of slot s names
MatchingAdmins(s) ==
    {u \in users :
        /\ u.email = reqs[s].body.email
        /\ u.role = "ADMIN"
        /\ u.password = bcryptHash(reqs[s].body.password, u.password.salt)}

\* C14: POST /api/auth/login returns a token exactly when the email belongs
\* to a stored user of role ADMIN whose stored hash the password matches; the
\* token embeds the id of that user and user_role "admin", and the status is
\* 200 exactly when a token is returned.
C14_TokenOnlyForAdmin ==
    \A s \in Slots :
        LoggedIn(s) =>
            LET token == reqs[s].out.token
            IN  /\ (token # NoJwt) <=> (MatchingAdmins(s) # {})
                /\ (token # NoJwt) <=> (reqs[s].status = 200)
                /\ token # NoJwt =>
                      /\ token.user_role = "admin"
                      /\ \E u \in MatchingAdmins(s) : token.userId = u.id

\* C14 witness: one login has returned a token, another, with the email of
\* the administrator and a wrong password, has not
C14_Witness ==
    \E s, t \in Slots :
        /\ LoggedIn(s) /\ reqs[s].out.token # NoJwt
        /\ LoggedIn(t) /\ reqs[t].body.email = AdminEmail
        /\ reqs[t].body.password = "wrong" /\ reqs[t].out.token = NoJwt

\* the login of slot s named the email of a stored user who is no ADMIN
NonAdminAccount(s) ==
    LoggedIn(s) /\ reqs[s].id # 0 /\ LoginUser(s).role # "ADMIN"

\* the login of slot s named an email no user has, or a password that does
\* not match the hash of the user who has it
InvalidCredentials(s) ==
    /\ LoggedIn(s)
    /\ reqs[s].body.email # None /\ reqs[s].body.password # None
    /\ \/ reqs[s].id = 0
       \/ ~bcryptCompare(reqs[s].body.password, LoginUser(s).password)

\* C15: POST /api/auth/login answers a request for an existing non-admin
\* account and a request with invalid credentials (unknown email or wrong
\* password) with the same HTTP status and no token.
C15_RejectedIdentically ==
    \A s, t \in Slots :
        (NonAdminAccount(s) /\ InvalidCredentials(t))
            => /\ reqs[s].status = reqs[t].status
               /\ reqs[s].out.token = NoJwt
               /\ reqs[t].out.token = NoJwt

\* the registration of slot s has inserted its row
Registered(s) == Done(s) /\ reqs[s].op = "register" /\ reqs[s].status = 200

\* C16: every user row that registration has created has role USER, whatever
\* the request body said, and the users of role ADMIN are in every reachable
\* state the ones the store started with.
C16_AdminsNeverChange ==
    /\ {u \in users : u.role = "ADMIN"} = {AdminUser}
    /\ \A u \in users \ {AdminUser} : u.role = "USER"
    /\ \A s \in Slots :
          Registered(s) => \E u \in users : u.id = reqs[s].id /\ u.role = "USER"

\* C16 witness: a registration whose body asked for the role ADMIN has
\* inserted its row
C16_Witness ==
    \E s \in Slots :
        /\ Registered(s) /\ reqs[s].body.role = "ADMIN"
        /\ \E u \in users : u.id = reqs[s].id /\ u.email = reqs[s].body.email

\* C17: DELETE /api/admin/menus/{id} on a menu with an imageKey attempts the
\* deletion of the image before it touches the row; whether the image was
\* removed or the removal failed, the handler goes on to delete the row, and
\* the deletion of the row is answered 200 with the row gone.
C17_ImageThenRow ==
    [][\A s \in Slots :
          /\ (Free(s) /\ reqs'[s].op = "menuDelete" /\ reqs'[s].pc # "done")
                => /\ menus' = menus
                   /\ reqs'[s].pc = "deleteImage"
                        <=> \E m \in MenuById(reqs'[s].id) : m.imageKey # 0
          /\ (At(s, "menuDelete", "deleteImage") /\ reqs'[s] # reqs[s])
                => /\ menus' = menus
                   /\ reqs'[s].pc = "delete"
          /\ (At(s, "menuDelete", "delete") /\ reqs[s].old # 0
                /\ MenuById(reqs[s].id) # {} /\ reqs'[s] # reqs[s])
                => /\ reqs'[s].status = 200
                   /\ MenuById(reqs[s].id)' = {}]_vars

\* a menu whose image could not be removed was deleted and answered 200
C17_Witness ==
    \E s \in Slots :
       /\ Done(s) /\ reqs[s].op = "menuDelete" /\ reqs[s].status = 200
       /\ reqs[s].old # 0 /\ reqs[s].old \in storage
       /\ MenuById(reqs[s].id) = {}

\* C18: a category create or rename that the unique index on the name rejects
\* (the request found the name free, another request took it first) is answered
\* 400, and a request that found the name taken is answered 400 as well.
C18_RejectedWriteGets400 ==
    \A s \in Slots :
       (Done(s) /\ reqs[s].op \in {"catPost", "catPut"} /\ reqs[s].conflict)
          => reqs[s].status = 400

\* no two stored categories have the same name
UniqueNames == \A c, d \in categories : c.name = d.name => c = d

\* C19: under every interleaving of category creates and renames no two
\* categories share a name; a rename that ends while a different category
\* holds the name is answered 400 and changes nothing; a rename of an existing
\* category to the name it has goes through to the update and is answered 200.
C19_UniqueNamesRenameRejected ==
    /\ []UniqueNames
    /\ [][\A s \in Slots :
            /\ (reqs[s].op = "catPut" /\ ~Free(s) /\ Done(s)'
                  /\ NameKeyViolated(reqs[s].id, reqs[s].body.name))
                  => (reqs'[s].status = 400 /\ categories' = categories)
            /\ (reqs[s].op = "catPut" /\ ~Free(s) /\ reqs'[s] # reqs[s]
                  /\ \E c \in CategoryById(reqs[s].id) : c.name = reqs[s].body.name)
                  => (reqs'[s].pc = "update" \/ reqs'[s].status = 200)]_vars

\* the items of a response, as a set
ItemsOf(s) == {reqs[s].out.items[i] : i \in DOMAIN reqs[s].out.items}

Listed(s, op) == Done(s) /\ reqs[s].op = op /\ reqs[s].status = 200

\* C11: a listing of GET /api/admin/menus with status=PUBLISHED has no DRAFT
\* menu among its items, whatever page, limit, search and categoryId are, and
\* its total is the number of PUBLISHED menus that meet the other filters.
C11_PublishedOnly ==
    \A s \in Slots :
       (Listed(s, "menuList") /\ reqs[s].query.status = "PUBLISHED")
          => /\ \A m \in ItemsOf(s) : m \in menus /\ m.status = "PUBLISHED"
             /\ reqs[s].out.total =
                   Cardinality({m \in MenuWhere([reqs[s].query EXCEPT !.status = None]) :
                                   m.status = "PUBLISHED"})

\* a listing with status=PUBLISHED returned a menu while a DRAFT menu that
\* meets the other filters is stored
C11_Witness ==
    \E s \in Slots :
       /\ Listed(s, "menuList") /\ reqs[s].query.status = "PUBLISHED"
       /\ reqs[s].out.items # <<>>
       /\ \E m \in MenuWhere([reqs[s].query EXCEPT !.status = None]) : m.status = "DRAFT"

\* C12: the public menu has no DRAFT menu and no category without a PUBLISHED
\* menu, and it has every PUBLISHED menu of every category whose name contains
\* the filter, in every store the administrator's creates, updates and deletes
\* lead to.
C12_PublicShowsPublished ==
    \A s \in Slots :
       Listed(s, "publicMenu")
          => LET Shows(c, m) ==
                    \E d \in ItemsOf(s) :
                       d.id = c.id /\ \E i \in DOMAIN d.menus : d.menus[i].id = m.id
             IN  /\ \A d \in ItemsOf(s) :
                       /\ d.menus # <<>>
                       /\ \A i \in DOMAIN d.menus :
                             \E m \in MenuById(d.menus[i].id) :
                                m.status = "PUBLISHED" /\ m.categoryId = d.id
                 /\ \A c \in categories, m \in menus :
                       (/\ m.categoryId = c.id /\ m.status = "PUBLISHED"
                        /\ \/ reqs[s].query.category = ""
                           \/ ContainsInsensitive(c.name, reqs[s].query.category))
                          => Shows(c, m)

\* a public menu under a filter shows a category while a DRAFT menu and a
\* category without a PUBLISHED menu are stored
C12_Witness ==
    \E s \in Slots :
       /\ Listed(s, "publicMenu") /\ reqs[s].query.category # ""
       /\ reqs[s].out.items # <<>>
       /\ \E m \in menus : m.status = "DRAFT"
       /\ \E c \in categories : \A m \in MenusOf(c.id) : m.status # "PUBLISHED"

\* no stored category has a name that contains the filter of the request
MatchesNothing(s) ==
    /\ reqs[s].query.category # ""
    /\ \A c \in categories : ~ContainsInsensitive(c.name, reqs[s].query.category)

\* C13: a public menu whose category filter matches no category is answered
\* 200 with an empty list of categories, never 404.
C13_NoMatchGets200Empty ==
    \A s \in Slots :
       (Done(s) /\ reqs[s].op = "publicMenu" /\ MatchesNothing(s))
          => reqs[s].status = 200 /\ reqs[s].out.items = <<>>

\* the filter matched nothing while a category with a PUBLISHED menu is stored
C13_Witness ==
    \E s \in Slots :
       /\ Done(s) /\ reqs[s].op = "publicMenu" /\ MatchesNothing(s)
       /\ \E m \in menus : m.status = "PUBLISHED"

\* the rows a listing selects
Matching(s) ==
    IF reqs[s].op = "catList" THEN CategoryWhere(reqs[s].query)
    ELSE MenuWhere(reqs[s].query)

\* C20: a listing with page >= 1 and limit >= 1 reports the number of matching
\* records as total and ceil(total / limit) as pages, and its items are the
\* records at positions (page-1)*limit+1 .. min(page*limit, total) of the
\* matching records by createdAt descending; in a store that is left alone,
\* pages of one listing share no record, and pages 1 and 2 of a listing of two
\* pages have every matching record.
C20_PagesPartition ==
    /\ \A s \in Slots :
          (Listed(s, "catList") \/ Listed(s, "menuList"))
             => LET q == reqs[s].query
                    total == Cardinality(Matching(s))
                    last == IF PageOf(q) * LimitOf(q) < total
                            THEN PageOf(q) * LimitOf(q) ELSE total
                IN  /\ reqs[s].out.total = total
                    /\ reqs[s].out.pages * LimitOf(q) >= total
                    /\ (reqs[s].out.pages - 1) * LimitOf(q) < total
                    /\ \E o \in Orderings(Matching(s), "desc") :
                          reqs[s].out.items = SubSeq(o, SkipOf(q) + 1, last)
    /\ \A s, t \in Slots :
          (/\ Listed(s, reqs[t].op) /\ Listed(t, reqs[t].op) /\ IsListing(reqs[t])
           /\ reqs[s].query = [reqs[t].query EXCEPT !.page = reqs[s].query.page]
           /\ PageOf(reqs[s].query) < PageOf(reqs[t].query))
             => /\ ItemsOf(s) \cap ItemsOf(t) = {}
                /\ (PageOf(reqs[t].query) = 2 /\ reqs[t].out.pages = 2)
                      => ItemsOf(s) \cup ItemsOf(t) = Matching(t)

\* the request of slot s is an authenticated create or update of a category
\* or a menu whose body is not well-formed JSON or fails the schema
BadBody(s) ==
    /\ reqs[s].op \in {"catPost", "catPut", "menuPost", "menuPut"}
    /\ ~Unauthorized(reqs[s].hdr)
    /\ \/ reqs[s].body.shape \in {"invalid", "malformed"}
       \/ reqs[s].body.shape = "noData" /\ reqs[s].op = "menuPost"

\* C21: an authenticated POST or PUT on categories and menus whose body is not
\* well-formed JSON or does not satisfy the schema is answered 400, and the
\* tables and the object storage are left as they were.
C21_BadBodyGets400 ==
    [][\A s \in Slots :
          (reqs'[s] # reqs[s] /\ Done(s)' /\ BadBody(s)')
             => (reqs'[s].status = 400 /\ storeVars' = storeVars)]_vars

\* C22: every response of a route handler has one of the statuses 200, 201,
\* 400, 401, 404 and 500.
C22_StatusSet ==
    \A s \in Slots : Done(s) => reqs[s].status \in {200, 201, 400, 401, 404, 500}

\* C23: when the upload of the image fails in POST /api/admin/menus or in
\* PUT /api/admin/menus/{id}, the handler answers 500 and ends there: the
\* request creates or modifies no row.
C23_UploadFailureWritesNothing ==
    [][\A s \in Slots :
          (/\ reqs[s].op \in {"menuPost", "menuPut"} /\ reqs[s].pc = "upload"
           /\ reqs'[s] # reqs[s] /\ storage' = storage)
             => /\ Done(s)' /\ reqs'[s].status = 500
                /\ menus' = menus /\ categories' = categories]_vars

\* a POST with a valid body and image was answered 500 after its upload, and
\* the menus are the one the store started with
C23_Witness ==
    \E s \in Slots :
       /\ Done(s) /\ reqs[s].op = "menuPost" /\ reqs[s].status = 500
       /\ reqs[s].body.shape = "ok" /\ reqs[s].calls = 2 /\ ~reqs[s].conflict
       /\ menus = {FinalData(1, ApiBody(1, "valid"), 1)}

\* C24: every stored menu with a discountedPrice has the discountPercent
\* round((price - discountedPrice) / price * 100), and every stored menu
\* without a discountedPrice has no discountPercent, after every sequence of
\* creates and updates.
C24_PercentDerived ==
    \A m \in menus :
       /\ IsNum(m.discountedPrice) /\ m.discountedPrice.v <= m.price
             => m.discountPercent = Num(RoundP(m.price, m.discountedPrice.v))
       /\ m.discountedPrice = Null => m.discountPercent = Null

\* C25: the discountPercent of every stored menu is null or an integer from 0
\* to 100, whatever schema-valid prices the creates and updates carried.
C25_PercentInRange ==
    \A m \in menus :
       m.discountPercent = Null
          \/ (IsNum(m.discountPercent) /\ m.discountPercent.v \in 0..100)

\* no request is in a handler
Quiet == \A s \in Slots : Free(s)

\* C26: once the requests have been answered, every stored menu with an
\* imageKey refers to an object of the object storage, also after requests in
\* which a call of the object storage failed.
C26_ImageKeyExists ==
    Quiet => \A m \in menus : m.imageKey # 0 => m.imageKey \in storage

\* C27: once the requests have been answered, every object of the object
\* storage is the image of a stored menu, also after requests in which the
\* write of the row or a call of the object storage failed.
C27_NoOrphanedImage ==
    Quiet => \A k \in storage : \E m \in menus : m.imageKey = k

\* C28: every session the credentials sign-in establishes carries the role
\* ADMIN, and the gate never answers with the redirect to the site root that
\* it has for sessions of another role.
C28_SessionsAreAdmin ==
    /\ browser.session \in {None, "ADMIN"}
    /\ resp # Redirect(PRoot, "", {})

\* an administrator holds a session and was let into /administrator while an
\* account of role USER is stored
C28_Witness ==
    /\ browser.session = "ADMIN" /\ browser.path = PAdministrator
    /\ phase = "passed"
    /\ \E u \in users : u.role = "USER"

\* C29: whatever path is requested and whatever session the browser holds,
\* the redirects of the gate and of the login page are followed at most twice
\* and every request ends with a page that is rendered: there is no cycle of
\* redirects.
C29_RedirectsEnd ==
    /\ [](browser.hops <= 2)
    /\ [](phase = "pending" => <>(phase = "rendered"))

\* an administrator asked for /login and got /administrator after a redirect
C29_Witness ==
    /\ phase = "rendered" /\ browser.hops = 1
    /\ browser.session = "ADMIN" /\ browser.path = PAdministrator

\* C30: while every fetch of the page has failed and Retry was never clicked,
\* the page has made at most the initial call and MAX_RETRIES retries.
C30_RetriesStop == client.clean => client.calls <= 1 + MAX_RETRIES

====
